---- MODULE Spec2Model ----
(***************************************************************************)
(* Model of src/src/agents.py: the chunker, the message templates, the six *)
(* chunking task agents and the chat helper agent, driven by a completion  *)
(* client (model.invoke) that either returns text or raises.               *)
(*                                                                         *)
(* Strings are sequences of tokens.  A token is one character, except that *)
(* a run of fixed literal text of the source that contains no brace is     *)
(* kept as one token (the instruction texts, the error prefixes).          *)
(***************************************************************************)
EXTENDS Integers, Sequences, FiniteSets, TLC

\* ------------------------------------------------------------------ bounds
MaxDocLen == 3        \* short documents: every string over Alphabet up to this length
MaxLength == 3        \* max_length arguments of a direct chunk_document call: 1..MaxLength
MaxFullChunks == 2    \* long documents hold up to this many full default-size chunks

\* --------------------------------------------------------- program constants
DEFAULT_MAX_LENGTH == 5000

\* ------------------------------------------------------------------ strings
Alphabet == {"a", "{", "}"}

FIELD_NAME == <<"d", "o", "c", "u", "m", "e", "n", "t">>

PLACEHOLDER == <<"{">> \o FIELD_NAME \o <<"}">>

\* the scan never clamps the end of a chunk to the document
Min_first(a, b) == a

Min(a, b) == IF a < b THEN a ELSE b

\* s[a:b] for 0 <= a: the characters at 0-based positions a .. b-1, b clamped
\* to the length, empty when a >= b
\* the slice loses its last character
Slice_dropLast(s, a, b) == SubSeq(s, a + 1, (IF b > Len(s) THEN Len(s) ELSE b) - 1)

\* the slice loses its first character
Slice_dropFirst(s, a, b) == SubSeq(s, a + 2, IF b > Len(s) THEN Len(s) ELSE b)

Slice(s, a, b) == SubSeq(s, a + 1, IF b > Len(s) THEN Len(s) ELSE b)

RECURSIVE StringsUpTo(_)
StringsUpTo(n) ==
  IF n = 0 THEN {<<>>}
  ELSE LET shorter == StringsUpTo(n - 1)
       IN shorter \cup {Append(s, c) : s \in {t \in shorter : Len(t) = n - 1}, c \in Alphabet}

\* character i of a long document: mostly letters, with braces sprinkled in
FillChar(i) == IF i % 7 = 0 THEN "{" ELSE IF i % 7 = 3 THEN "}" ELSE IF i % 2 = 0 THEN "a" ELSE "b"

LongDoc(n) == [i \in 1..n |-> FillChar(i)]

LongLengths ==
  {k * DEFAULT_MAX_LENGTH + r : k \in 1..MaxFullChunks, r \in {0, 1}}
    \cup {k * DEFAULT_MAX_LENGTH - 1 : k \in 1..MaxFullChunks}

\* documents whose text looks like template syntax
BraceDocs == {PLACEHOLDER, <<"a">> \o PLACEHOLDER \o <<"{", "{">>, <<"{", "{">> \o FIELD_NAME \o <<"}", "}">>}

Documents == StringsUpTo(MaxDocLen) \cup BraceDocs \cup {LongDoc(n) : n \in LongLengths}

DirectDocuments == StringsUpTo(MaxDocLen)

Questions == {<<>>, <<"q">>, <<"{", "q", "}">>}

\* ------------------------------------------------------- completion client
Outputs == {<<"X">>, <<"Y">>}

Exceptions == {[cls |-> "APIConnectionError", msg |-> <<"Connection error.">>],
               [cls |-> "RateLimitError", msg |-> <<"quota", " ", "exceeded">>]}

str(e) == e.msg

\* ------------------------------------------------------------------- tasks
ChunkingTasks == {"summary", "appeal", "review", "lawsuit", "lawsuit_response", "contract_analysis"}

SYSTEM_PROMPT == <<"You are a legal expert AI assistant.">>

TemplateHead(task) ==
  CASE task = "summary" -> <<"summary instructions">>
    [] task = "appeal" -> <<"appeal instructions">>
    [] task = "review" -> <<"review instructions">>
    [] task = "lawsuit" -> <<"lawsuit instructions">>
    [] task = "lawsuit_response" -> <<"lawsuit response instructions">>
    [] task = "contract_analysis" -> <<"contract analysis instructions">>

TemplateTail == <<"Always respond in English, regardless of the document language.">>

Template(task) == TemplateHead(task) \o PLACEHOLDER \o TemplateTail

ErrorPrefix(task) ==
  CASE task = "summary" -> "Error generating summary: "
    [] task = "appeal" -> "Error generating appeal: "
    [] task = "review" -> "Error generating review: "
    [] task = "lawsuit" -> "Error generating lawsuit: "
    [] task = "lawsuit_response" -> "Error generating lawsuit response: "
    [] task = "contract_analysis" -> "Error analyzing contract: "

LogPrefix(task) ==
  CASE task = "summary" -> "Error in summary agent: "
    [] task = "appeal" -> "Error in appeal agent: "
    [] task = "review" -> "Error in review agent: "
    [] task = "lawsuit" -> "Error in lawsuit agent: "
    [] task = "lawsuit_response" -> "Error in lawsuit response agent: "
    [] task = "contract_analysis" -> "Error in contract analysis agent: "
    [] task = "chat" -> "Error in chat helper: "

CHAT_SYSTEM_PROMPT == <<"You are the Legal Chat Helper Agent ...">>

CHAT_APOLOGY == <<"I apologize, but I encountered an error. Could you please rephrase your question or specify what you'd like to know about the document?">>

\* ------------------------------------------------------------- str.format
FormatError(cls) == [ok |-> FALSE, text |-> <<>>, err |-> [cls |-> cls, msg |-> <<cls>>]]

NoError == [cls |-> "none", msg |-> <<>>]

Emit(s, rest) == IF rest.ok THEN [rest EXCEPT !.text = s \o @] ELSE rest

\* index of the first "}" of p at or after position i, 0 when there is none
RECURSIVE FindClose(_, _)
FindClose(p, i) ==
  IF i > Len(p) THEN 0
  ELSE IF p[i] = "}" THEN i
  ELSE FindClose(p, i + 1)

\* prompt.format(document=document), scanning the prompt from position i:
\* "{{" and "}}" are escapes, "{document}" is replaced by the argument as
\* it is (the argument is not scanned again), anything else with a brace
\* raises.
RECURSIVE FormatFrom(_, _, _)
FormatFrom(p, i, document) ==
  IF i > Len(p) THEN [ok |-> TRUE, text |-> <<>>, err |-> NoError]
  ELSE IF p[i] = "{" THEN
    IF i + 1 <= Len(p) /\ p[i + 1] = "{"
    THEN Emit(<<"{">>, FormatFrom(p, i + 2, document))
    ELSE LET close == FindClose(p, i + 1)
         IN IF close = 0 THEN FormatError("ValueError")
            ELSE IF SubSeq(p, i + 1, close - 1) = FIELD_NAME
            THEN Emit(document, FormatFrom(p, close + 1, document))
            ELSE FormatError("KeyError")
  ELSE IF p[i] = "}" THEN
    IF i + 1 <= Len(p) /\ p[i + 1] = "}"
    THEN Emit(<<"}">>, FormatFrom(p, i + 2, document))
    ELSE FormatError("ValueError")
  ELSE Emit(<<p[i]>>, FormatFrom(p, i + 1, document))

\* the prompt goes out as written, format is never applied
Format_notApplied(prompt, document) == [ok |-> TRUE, text |-> prompt, err |-> NoError]

Format(prompt, document) == FormatFrom(prompt, 1, document)

RECURSIVE Concat(_)
Concat(ss) == IF ss = <<>> THEN <<>> ELSE Head(ss) \o Concat(Tail(ss))

Messages(system, human) ==
  <<[role |-> "system", content |-> system], [role |-> "human", content |-> human]>>

create_messages(prompt, document) == Messages(SYSTEM_PROMPT, Format(prompt, document).text)

\* the chat agent embeds only the first default-size chunk of the document
chat_messages_firstChunk(document, question) ==
  Messages(CHAT_SYSTEM_PROMPT,
           <<"Based on this legal document, please help with the following: User Question: ">>
             \o question \o <<"Document Content: ---">> \o Slice(document, 0, DEFAULT_MAX_LENGTH)
             \o <<"--- Please provide a helpful and detailed response ...">>)

chat_messages(document, question) ==
  Messages(CHAT_SYSTEM_PROMPT,
           <<"Based on this legal document, please help with the following: User Question: ">>
             \o question \o <<"Document Content: ---">> \o document
             \o <<"--- Please provide a helpful and detailed response ...">>)

\* the parts are glued together with nothing between them
Join_noSeparator(parts) == Concat(parts)

\* " ".join(parts)
RECURSIVE Join(_)
Join(parts) ==
  IF parts = <<>> THEN <<>>
  ELSE IF Len(parts) = 1 THEN parts[1]
  ELSE parts[1] \o <<" ">> \o Join(Tail(parts))

\* -------------------------------------------------------------------- state
VARIABLES
  pc,          \* position of the one invocation: "idle", "while", "for", "invoke", "chat_invoke", "except", "done"
  entry,       \* the function the caller invoked: "chunk_document", a chunking task, or "chat"
  document,    \* argument document
  question,    \* argument question (chat only)
  max_length,  \* argument max_length of chunk_document
  chunks,      \* chunk_document: the list being built, and the list it returns
  start,       \* chunk_document: scan position
  doc_chunks,  \* agent: the chunk list it iterates
  idx,         \* agent: position of the for loop in doc_chunks (1-based)
  parts,       \* agent: summaries / appeal_parts / reviews / ... collected so far
  messages,    \* the message list last handed to model.invoke
  exc,         \* the exception being handled
  result,      \* the string the agent returned
  events,      \* what the invocation did at the client boundary, in order
  errlog       \* lines written by logging.error

vars == <<pc, entry, document, question, max_length, chunks, start, doc_chunks,
          idx, parts, messages, exc, result, events, errlog>>

\* text: what came back from the client (response, raise) or went back to the
\* caller (return); the text of a request is in messages
Event(ev, k, text) == [ev |-> ev, chunk |-> k, text |-> text]

Init ==
  /\ pc = "idle"
  /\ entry = "none"
  /\ document = <<>>
  /\ question = <<>>
  /\ max_length = DEFAULT_MAX_LENGTH
  /\ chunks = <<>>
  /\ start = 0
  /\ doc_chunks = <<>>
  /\ idx = 1
  /\ parts = <<>>
  /\ messages = <<>>
  /\ exc = NoError
  /\ result = <<>>
  /\ events = <<>>
  /\ errlog = <<>>

\* ---------------------------------------------------------- chunk_document
\* a caller invokes chunk_document(doc, L) directly
Call_chunk_document(doc, L) ==
  /\ pc = "idle"
  /\ pc' = "while"
  /\ entry' = "chunk_document"
  /\ document' = doc
  /\ max_length' = L
  /\ chunks' = <<>>
  /\ start' = 0
  /\ UNCHANGED <<question, doc_chunks, idx, parts, messages, exc, result, events, errlog>>

\* one iteration of the scan loop
WhileBody ==
  /\ pc = "while"
  /\ start < Len(document)
  /\ LET end == Min(start + max_length, Len(document))
     IN /\ chunks' = Append(chunks, Slice(document, start, end))
        /\ start' = end
  /\ UNCHANGED <<pc, entry, document, question, max_length, doc_chunks, idx, parts,
                 messages, exc, result, events, errlog>>

\* the loop test fails: return chunks, to the outside caller or to the agent,
\* which then sets up its own loop
WhileExit ==
  /\ pc = "while"
  /\ ~(start < Len(document))
  /\ IF entry = "chunk_document"
     THEN /\ pc' = "done"
          /\ UNCHANGED <<doc_chunks, parts, idx>>
     ELSE /\ pc' = "for"
          /\ doc_chunks' = chunks
          /\ parts' = <<>>
          /\ idx' = 1
  /\ UNCHANGED <<entry, document, question, max_length, chunks, start, messages, exc,
                 result, events, errlog>>

\* ---------------------------------------------------- chunking task agents
\* a caller invokes one of the six chunking agents; its first statement is
\* chunk_document(document) with the default max_length
Call_agent(task, doc) ==
  /\ pc = "idle"
  /\ pc' = "while"
  /\ entry' = task
  /\ document' = doc
  /\ max_length' = DEFAULT_MAX_LENGTH
  /\ chunks' = <<>>
  /\ start' = 0
  /\ UNCHANGED <<question, doc_chunks, idx, parts, messages, exc, result, events, errlog>>

\* the request for the following chunk goes out together with this one
ForNext_prefetch ==
  /\ pc = "for"
  /\ idx <= Len(doc_chunks)
  /\ messages' = create_messages(Template(entry), doc_chunks[idx])
  /\ events' = events \o (IF idx < Len(doc_chunks)
                          THEN <<Event("request", idx, <<>>), Event("request", idx + 1, <<>>)>>
                          ELSE <<Event("request", idx, <<>>)>>)
  /\ pc' = "invoke"
  /\ UNCHANGED <<entry, document, question, max_length, chunks, start, doc_chunks, idx,
                 parts, result, errlog, exc>>

\* next chunk of the for loop: render the messages and hand them to
\* model.invoke; a failing str.format lands in the except clause
ForNext ==
  /\ pc = "for"
  /\ idx <= Len(doc_chunks)
  /\ LET rendered == Format(Template(entry), doc_chunks[idx])
     IN IF rendered.ok
        THEN /\ messages' = create_messages(Template(entry), doc_chunks[idx])
             /\ events' = Append(events, Event("request", idx, <<>>))
             /\ pc' = "invoke"
             /\ exc' = exc
        ELSE /\ exc' = rendered.err
             /\ pc' = "except"
             /\ UNCHANGED <<messages, events>>
  /\ UNCHANGED <<entry, document, question, max_length, chunks, start, doc_chunks, idx,
                 parts, result, errlog>>

\* model.invoke returns: collect response.content and go on
InvokeReturn(out) ==
  /\ pc = "invoke"
  /\ parts' = Append(parts, out)
  /\ events' = Append(events, Event("response", idx, out))
  /\ idx' = idx + 1
  /\ pc' = "for"
  /\ UNCHANGED <<entry, document, question, max_length, chunks, start, doc_chunks,
                 messages, exc, result, errlog>>

\* the first failure of an invocation is swallowed and the chunk submitted again
InvokeRaise_retryOnce(e) ==
  /\ pc = "invoke"
  /\ exc' = e
  /\ events' = Append(events, Event("raise", idx, str(e)))
  /\ pc' = IF exc = NoError THEN "for" ELSE "except"
  /\ UNCHANGED <<entry, document, question, max_length, chunks, start, doc_chunks, idx,
                 parts, messages, result, errlog>>

\* model.invoke raises: control leaves the loop for the except clause
InvokeRaise(e) ==
  /\ pc = "invoke"
  /\ exc' = e
  /\ events' = Append(events, Event("raise", idx, str(e)))
  /\ pc' = "except"
  /\ UNCHANGED <<entry, document, question, max_length, chunks, start, doc_chunks, idx,
                 parts, messages, result, errlog>>

\* the loop is exhausted: return " ".join(parts)
ForExit ==
  /\ pc = "for"
  /\ idx > Len(doc_chunks)
  /\ result' = Join(parts)
  /\ events' = Append(events, Event("return", 0, result'))
  /\ pc' = "done"
  /\ UNCHANGED <<entry, document, question, max_length, chunks, start, doc_chunks, idx,
                 parts, messages, exc, errlog>>

\* the error string is appended to what the earlier chunks produced
ExceptHandler_keepsPartial ==
  /\ pc = "except"
  /\ entry \in ChunkingTasks
  /\ errlog' = Append(errlog, <<LogPrefix(entry)>> \o str(exc))
  /\ result' = Join(Append(parts, <<ErrorPrefix(entry)>> \o str(exc)))
  /\ events' = Append(events, Event("return", 0, result'))
  /\ pc' = "done"
  /\ UNCHANGED <<entry, document, question, max_length, chunks, start, doc_chunks, idx,
                 parts, messages, exc>>

\* except Exception as e: log it and return the task's error string
ExceptHandler ==
  /\ pc = "except"
  /\ entry \in ChunkingTasks
  /\ errlog' = Append(errlog, <<LogPrefix(entry)>> \o str(exc))
  /\ result' = <<ErrorPrefix(entry)>> \o str(exc)
  /\ events' = Append(events, Event("return", 0, result'))
  /\ pc' = "done"
  /\ UNCHANGED <<entry, document, question, max_length, chunks, start, doc_chunks, idx,
                 parts, messages, exc>>

\* ------------------------------------------------------- chat helper agent
\* a caller invokes the chat agent: it builds both messages and calls
\* model.invoke once
Call_chat(doc, q) ==
  /\ pc = "idle"
  /\ entry' = "chat"
  /\ document' = doc
  /\ question' = q
  /\ messages' = chat_messages(doc, q)
  /\ events' = Append(events, Event("request", 0, <<>>))
  /\ pc' = "chat_invoke"
  /\ UNCHANGED <<max_length, chunks, start, doc_chunks, idx, parts, exc, result, errlog>>

\* model.invoke returns: return response.content
ChatReturn(out) ==
  /\ pc = "chat_invoke"
  /\ result' = out
  /\ events' = events \o <<Event("response", 0, out), Event("return", 0, result')>>
  /\ pc' = "done"
  /\ UNCHANGED <<entry, document, question, max_length, chunks, start, doc_chunks, idx,
                 parts, messages, exc, errlog>>

\* model.invoke raises: control goes to the chat agent's except clause
ChatRaise(e) ==
  /\ pc = "chat_invoke"
  /\ exc' = e
  /\ events' = Append(events, Event("raise", 0, str(e)))
  /\ pc' = "chat_except"
  /\ UNCHANGED <<entry, document, question, max_length, chunks, start, doc_chunks, idx,
                 parts, messages, result, errlog>>

\* the chat agent reports the error the way the other agents do
ChatExceptHandler_describes ==
  /\ pc = "chat_except"
  /\ errlog' = Append(errlog, <<LogPrefix("chat")>> \o str(exc))
  /\ result' = <<"Error in chat: ">> \o str(exc)
  /\ events' = Append(events, Event("return", 0, result'))
  /\ pc' = "done"
  /\ UNCHANGED <<entry, document, question, max_length, chunks, start, doc_chunks, idx,
                 parts, messages, exc>>

\* except Exception as e: log it and return the apology
ChatExceptHandler ==
  /\ pc = "chat_except"
  /\ errlog' = Append(errlog, <<LogPrefix("chat")>> \o str(exc))
  /\ result' = CHAT_APOLOGY
  /\ events' = Append(events, Event("return", 0, result'))
  /\ pc' = "done"
  /\ UNCHANGED <<entry, document, question, max_length, chunks, start, doc_chunks, idx,
                 parts, messages, exc>>

\* ------------------------------------------------------------ specification
Next ==
  \/ \E doc \in DirectDocuments, L \in 1..MaxLength : Call_chunk_document(doc, L)
  \/ WhileBody
  \/ WhileExit
  \/ \E task \in ChunkingTasks, doc \in Documents : Call_agent(task, doc)
  \/ ForNext
  \/ \E out \in Outputs : InvokeReturn(out)
  \/ \E e \in Exceptions : InvokeRaise(e)
  \/ ForExit
  \/ ExceptHandler
  \/ \E doc \in Documents, q \in Questions : Call_chat(doc, q)
  \/ \E out \in Outputs : ChatReturn(out)
  \/ \E e \in Exceptions : ChatRaise(e)
  \/ ChatExceptHandler

Spec == Init /\ [][Next]_vars

\* the interpreter keeps running the invocation's own steps; whether the
\* completion client ever answers is not the program's to decide
FairSpec ==
  Spec /\ WF_vars(WhileBody) /\ WF_vars(WhileExit) /\ WF_vars(ForNext) /\ WF_vars(ForExit)
       /\ WF_vars(ExceptHandler) /\ WF_vars(ChatExceptHandler)

TypeOK ==
  /\ pc \in {"idle", "while", "for", "invoke", "except", "chat_invoke", "chat_except", "done"}
  /\ entry \in {"none", "chunk_document", "chat"} \cup ChunkingTasks
  /\ start \in 0..Len(document)
  /\ idx \in 1..(Len(doc_chunks) + 1)

\* =================================================================== claims
Ceil(n, d) == (n + d - 1) \div d

\* chunk_document has returned: chunks is the list it returned
ChunkReturned == entry \in ChunkingTasks \cup {"chunk_document"} /\ pc \notin {"idle", "while"}

\* C1: chunk_document(D, L), L > 0, returns chunks whose concatenation, in
\* order, is D; every chunk but the last has length L, the last has length in
\* 1..L, none is empty; a document of N*L characters gives N chunks and the
\* empty document gives none.
C1_ChunksPartitionDocument ==
  (ChunkReturned /\ max_length > 0) =>
    /\ Concat(chunks) = document
    /\ \A i \in 1..(Len(chunks) - 1) : Len(chunks[i]) = max_length
    /\ Len(chunks) > 0 => Len(chunks[Len(chunks)]) \in 1..max_length
    /\ \A i \in 1..Len(chunks) : chunks[i] # <<>>
    /\ Len(document) % max_length = 0 => Len(chunks) = Len(document) \div max_length
    /\ document = <<>> => chunks = <<>>

\* a direct call that returned a full chunk followed by a shorter one
C1_Witness ==
  /\ pc = "done" /\ entry = "chunk_document"
  /\ Len(chunks) = 2
  /\ Len(chunks[1]) = max_length
  /\ Len(chunks[2]) < max_length

\* C2 as stated: every document of length <= L gives exactly one chunk equal
\* to the document.
C2_Original_OneChunkUpToL ==
  (ChunkReturned /\ max_length > 0 /\ Len(document) <= max_length) => chunks = <<document>>

\* C2 amended: every NON-EMPTY document of length <= L gives exactly one
\* chunk equal to the document (the empty document gives no chunk).
C2_OneChunkWhenNonEmptyUpToL ==
  (ChunkReturned /\ max_length > 0 /\ Len(document) \in 1..max_length) => chunks = <<document>>

\* a direct call on a non-empty document shorter than max_length has returned
C2_Witness ==
  /\ pc = "done" /\ entry = "chunk_document"
  /\ Len(document) \in 1..(max_length - 1)
  /\ Len(chunks) = 1

\* the completion requests the invocation has issued so far
Requests == {p \in 1..Len(events) : events[p].ev = "request"}

\* C10: the scan loop of chunk_document terminates for every D and L >= 1:
\* start strictly increases on every iteration, the loop ends, and it ends
\* after exactly ceil(len(D)/L) iterations with start = len(D); so a chunking
\* agent issues at most ceil(len(D)/5000) completion calls.
C10_ScanLoopTerminates ==
  /\ [][WhileBody => start' > start]_vars
  /\ [](ChunkReturned => (Len(chunks) = Ceil(Len(document), max_length) /\ start = Len(document)))
  /\ [](pc = "while" => Len(chunks) = Ceil(start, max_length))
  /\ [](entry \in ChunkingTasks => Cardinality(Requests) <= Ceil(Len(document), DEFAULT_MAX_LENGTH))
  /\ (pc = "while") ~> (pc # "while")

\* an agent finished on a document whose scan ran three times, the last time
\* on a short rest, and made its three calls
C10_Witness ==
  /\ pc = "done" /\ entry \in ChunkingTasks
  /\ Len(chunks) = 3
  /\ Len(document) % max_length # 0
  /\ Cardinality(Requests) = 3

\* the events of one kind, as positions of the log
EventsOf(ev) == {p \in 1..Len(events) : events[p].ev = ev}

\* "X" repeated n times, joined by single spaces
XJoined(n) == [i \in 1..(IF n = 0 THEN 0 ELSE 2 * n - 1) |-> IF i % 2 = 1 THEN "X" ELSE " "]

\* the client answered every call of the invocation with "X"
ClientAlwaysX ==
  /\ EventsOf("raise") = {}
  /\ \A p \in EventsOf("response") : events[p].text = <<"X">>

\* C3: when the client returns "X" for every call, a chunking agent makes
\* exactly one call per chunk of chunk_document(D, 5000), in chunk order, and
\* returns "X" once per chunk joined by single spaces ("" for no chunk).
C3_OneCallPerChunkJoinedBySpace ==
  (pc = "done" /\ entry \in ChunkingTasks /\ ClientAlwaysX) =>
    LET n == Ceil(Len(document), DEFAULT_MAX_LENGTH)
    IN /\ Len(doc_chunks) = n
       /\ Concat(doc_chunks) = document
       /\ Cardinality(EventsOf("request")) = n
       /\ \A k \in 1..n : \E p \in EventsOf("request") :
            /\ events[p].chunk = k
            /\ Cardinality({q \in EventsOf("request") : q < p}) = k - 1
       /\ result = XJoined(n)

\* an agent returned "X X X" for a three-chunk document
C3_Witness ==
  /\ pc = "done" /\ entry \in ChunkingTasks /\ ClientAlwaysX
  /\ Len(doc_chunks) = 3
  /\ result = <<"X", " ", "X", " ", "X">>

\* the tokens the client produced as outputs of successful calls
CollectedTokens == UNION {{events[p].text[i] : i \in 1..Len(events[p].text)} : p \in EventsOf("response")}

\* C4: when the client raises on any call, a chunking agent returns a
\* string that begins with its task's error prefix and holds none of the
\* output collected from earlier chunks; the exception does not escape: the
\* except clause always ends in a return.
C4_ErrorStringWithoutPartialOutput ==
  /\ (pc = "done" /\ entry \in ChunkingTasks /\ EventsOf("raise") # {}) =>
       /\ Len(result) >= 1
       /\ result[1] = ErrorPrefix(entry)
       /\ \A i \in 1..Len(result) : result[i] \notin CollectedTokens
       /\ events[Len(events)] = Event("return", 0, result)
  /\ (pc = "except") => ENABLED ExceptHandler

\* an agent returned its error string after a successful first chunk and a
\* failing second one
C4_Witness ==
  /\ pc = "done" /\ entry = "contract_analysis"
  /\ EventsOf("response") # {}
  /\ EventsOf("raise") # {}
  /\ result[1] = "Error analyzing contract: "

\* C5: with a failing client the chat agent returns the same fixed apology
\* whatever the document, the question and the exception, and the exception
\* does not escape.
C5_ChatApology ==
  /\ (pc = "done" /\ entry = "chat" /\ EventsOf("raise") # {}) =>
       /\ result = CHAT_APOLOGY
       /\ events[Len(events)] = Event("return", 0, CHAT_APOLOGY)
  /\ (pc = "chat_except") => ENABLED ChatExceptHandler

\* the chat agent returned after a rate-limit failure on a non-empty question
C5_Witness ==
  /\ pc = "done" /\ entry = "chat"
  /\ exc.cls = "RateLimitError"
  /\ question # <<>>
  /\ document # <<>>

\* sub occurs in s as a contiguous run
Contains(s, sub) == \E i \in 0..(Len(s) - Len(sub)) : SubSeq(s, i + 1, i + Len(sub)) = sub

\* C6: the chat agent never chunks: one invocation issues exactly one
\* completion call, whose user instruction embeds the question and the whole
\* document, and on success it returns that call's output unchanged.
C6_ChatSingleCallWholeDocument ==
  (entry = "chat") =>
    /\ Cardinality(EventsOf("request")) = 1
    /\ events[1].ev = "request"
    /\ messages[2].role = "human"
    /\ \E i \in 0..(Len(messages[2].content) - Len(question) - Len(document)) :
         /\ SubSeq(messages[2].content, i + 1, i + Len(question)) = question
         /\ Contains(SubSeq(messages[2].content, i + Len(question) + 1, Len(messages[2].content)),
                     document)
    /\ (pc = "done" /\ EventsOf("response") # {}) =>
         /\ Cardinality(EventsOf("response")) = 1
         /\ \A p \in EventsOf("response") : result = events[p].text

\* the chat agent answered on a document longer than one default-size chunk
C6_Witness ==
  /\ pc = "done" /\ entry = "chat"
  /\ Len(document) > DEFAULT_MAX_LENGTH
  /\ question # <<>>
  /\ result = <<"Y">>

IsBrace(c) == c \in {"{", "}"}

\* C7: the user instruction handed to the client holds the chunk text
\* verbatim and whole, also when the chunk holds braces or "{document}", and
\* outside the chunk text nothing of the placeholder syntax is left: the
\* instruction is the template's text with the placeholder replaced by the
\* chunk, and rendering never fails.
C7_InstructionEmbedsChunkVerbatim ==
  /\ (pc = "invoke") =>
       LET instr == messages[2].content
           chunk == doc_chunks[idx]
       IN /\ messages[2].role = "human"
          /\ Len(instr) = Len(Template(entry)) - Len(PLACEHOLDER) + Len(chunk)
          /\ \E i \in 0..(Len(instr) - Len(chunk)) :
               /\ SubSeq(instr, i + 1, i + Len(chunk)) = chunk
               /\ \A j \in (1..i) \cup ((i + Len(chunk) + 1)..Len(instr)) : ~IsBrace(instr[j])
  /\ (pc = "except") => events[Len(events)].ev = "raise"

\* a request is outstanding for a chunk that is itself "{document}"
C7_Witness ==
  /\ pc = "invoke"
  /\ doc_chunks[idx] = PLACEHOLDER
  /\ Contains(messages[2].content, PLACEHOLDER)

\* requests of the invocation whose answer (response or raise) has not arrived
Outstanding == Cardinality(EventsOf("request")) - Cardinality(EventsOf("response")) - Cardinality(EventsOf("raise"))

\* C8: within one invocation of a chunking agent the requests go out one at
\* a time in chunk order: the request for chunk k+1 comes right after the
\* response for chunk k, the first request is for chunk 1, and never is more
\* than one request outstanding.
C8_StrictlySequential ==
  (entry \in ChunkingTasks) =>
    /\ Outstanding \in {0, 1}
    /\ Outstanding = 1 <=> pc = "invoke"
    /\ \A p \in EventsOf("request") :
         IF p = 1 THEN events[p].chunk = 1
         ELSE events[p - 1] .ev = "response" /\ events[p].chunk = events[p - 1].chunk + 1

\* the request for the third chunk is outstanding, two responses are in
C8_Witness ==
  /\ pc = "invoke" /\ entry \in ChunkingTasks
  /\ idx = 3
  /\ Cardinality(EventsOf("response")) = 2

\* C9: a failure on the call for chunk k aborts the invocation: no call is
\* issued afterwards, no chunk is submitted twice, and the next event after
\* the failure is the return of the error string.
C9_FailureAborts ==
  (entry \in ChunkingTasks) =>
    /\ \A p \in EventsOf("raise") :
         /\ \A q \in EventsOf("request") : q < p
         /\ p < Len(events) =>
              /\ p + 1 = Len(events)
              /\ events[p + 1] = Event("return", 0, <<ErrorPrefix(entry)>> \o events[p].text)
         /\ p = Len(events) => pc = "except"
    /\ \A p, q \in EventsOf("request") : events[p].chunk = events[q].chunk => p = q
    /\ pc = "except" => (ENABLED ExceptHandler /\ ~ENABLED ForNext /\ ~ENABLED ForExit)

\* the call for the second of three chunks failed and the agent returned
C9_Witness ==
  /\ pc = "done" /\ entry \in ChunkingTasks
  /\ Len(doc_chunks) = 3
  /\ \E p \in EventsOf("raise") : events[p].chunk = 2

====
